---- MODULE Spec2Model ----
(***************************************************************************)
(* A model of the Square component of react-chessboard                     *)
(* (src/chessboard/components/Square.tsx): the drop handler, the gesture   *)
(* handlers, the geometry effect and the style composition of one board    *)
(* cell, together with the fields of the shared chessboard context that    *)
(* the component reads and writes.                                         *)
(***************************************************************************)
EXTENDS Integers, Sequences, FiniteSets, TLC

(***************************************************************************)
(* Bounds of the model.                                                    *)
(***************************************************************************)
\* number of board cells whose instances receive events
NumCells == 2
\* renders of one cell instance after its mount
MaxRenders == 3
\* getBoundingClientRect returns one of the positions 0..MaxCoord
MaxCoord == 1

(***************************************************************************)
(* Values.                                                                 *)
(***************************************************************************)
\* null / undefined
None == "none"

\* the Square type: the 64 cell identities
Sq ==
  { "a1", "a2", "a3", "a4", "a5", "a6", "a7", "a8",
    "b1", "b2", "b3", "b4", "b5", "b6", "b7", "b8",
    "c1", "c2", "c3", "c4", "c5", "c6", "c7", "c8",
    "d1", "d2", "d3", "d4", "d5", "d6", "d7", "d8",
    "e1", "e2", "e3", "e4", "e5", "e6", "e7", "e8",
    "f1", "f2", "f3", "f4", "f5", "f6", "f7", "f8",
    "g1", "g2", "g3", "g4", "g5", "g6", "g7", "g8",
    "h1", "h2", "h3", "h4", "h5", "h6", "h7", "h8" }

\* the cells of the board whose instances the state machine drives
CellOrder == << "a1", "e4", "h8", "d5", "a8", "h1" >>
Cells == { CellOrder[i] : i \in 1..NumCells }

\* the Piece type, each piece as the characters of its name
PieceChars ==
  [ wP |-> << "w", "P" >>, wB |-> << "w", "B" >>, wN |-> << "w", "N" >>,
    wR |-> << "w", "R" >>, wQ |-> << "w", "Q" >>, wK |-> << "w", "K" >>,
    bP |-> << "b", "P" >>, bB |-> << "b", "B" >>, bN |-> << "b", "N" >>,
    bR |-> << "b", "R" >>, bQ |-> << "b", "Q" >>, bK |-> << "b", "K" >> ]
Piece == DOMAIN PieceChars

\* the drag payload { piece, square } of a drop (its id is never read)
DragPayload == [ piece : Piece, square : Cells ]
NoItem == [ piece |-> None, square |-> None ]

\* MouseEvent.button, MouseEvent.buttons (a bit mask), and the value the
\* handlers compare both with
MouseButton == 0..2
MouseButtons == 0..3
SecondaryButton == 2

\* where MouseEvent.relatedTarget lies with respect to the cell's element
Related == { "none", "self", "descendant", "outside" }

\* a call of a mutator or callback of the chessboard context
Call(fn, a, b, piece, flag) ==
  [ fn |-> fn, a |-> a, b |-> b, piece |-> piece, flag |-> flag ]
Call1(fn, a) == Call(fn, a, None, None, "undefined")
Call2(fn, a, b) == Call(fn, a, b, None, "undefined")

VARIABLES
  \* chessboard context
  autoPromoteToQueen,     \* configuration flag
  currentRightClickDown,  \* the cell of the right-click-down, or None
  promoteFromSquare,      \* promotion dialog state
  promoteToSquare,
  showPromoteDialog,
  \* per cell instance
  lastSquareDraggedOver,  \* useState<Sq | null>(null)
  \* the event handled last and the calls its handler made, in order
  ev,
  out,
  \* history: the cell of the latest secondary-button mouse-down, or None
  lastRightDown,
  \* chessboard context: layout
  boardWidth,
  boardOrientation,
  \* the parent's squares state: cell -> { x, y }, None where it has no entry
  squares,
  \* per cell instance: whether it is mounted, and the dependency array of
  \* the geometry effect at its last render
  mounted,
  effectDeps,
  \* history: renders made so far; per cell the layout inputs of its last
  \* render, its publications, its re-renders with a changed width or
  \* orientation, the effect runs that found no DOM node, and the rectangle
  \* it measured last
  renders,
  renderedLayout,
  published,
  layoutChanges,
  skipped,
  lastRect,
  \* chessboard context: the custom styles, and customSquareStyles?.[square]
  \* of the cell rendered
  styles,
  \* the props and drop state of the cell rendered, and its rendered styles
  cell,
  rendered

gestureVars ==
  << autoPromoteToQueen, currentRightClickDown, promoteFromSquare,
     promoteToSquare, showPromoteDialog, lastSquareDraggedOver, ev, out,
     lastRightDown >>

geometryVars ==
  << boardWidth, boardOrientation, squares, mounted, effectDeps, renders,
     renderedLayout, published, layoutChanges, skipped, lastRect >>

styleVars == << styles, cell, rendered >>

vars == << gestureVars, geometryVars, styleVars >>

Event(type, target, button, related, hit, item, promo, origin) ==
  [ type |-> type, cell |-> target, button |-> button, related |-> related,
    hit |-> hit, item |-> item, promo |-> promo, origin |-> origin ]

NoEvent == Event("none", None, 0, "none", None, NoItem, FALSE, None)

BoardWidths == { 400, 560 }
BoardOrientation == { "white", "black" }

\* DOMRect positions getBoundingClientRect may return
Coords == { [ x |-> i, y |-> i + 1 ] : i \in 0..MaxCoord }

GestureStart ==
  /\ autoPromoteToQueen \in BOOLEAN
  /\ currentRightClickDown = None
  /\ promoteFromSquare = None
  /\ promoteToSquare = None
  /\ showPromoteDialog = FALSE
  /\ lastSquareDraggedOver = [ c \in Cells |-> None ]
  /\ ev = NoEvent
  /\ out = << >>
  /\ lastRightDown = None

LayoutStart ==
  /\ boardWidth = 560
  /\ boardOrientation = "white"

GeometryStart ==
  /\ squares = [ c \in Cells |-> None ]
  /\ mounted = [ c \in Cells |-> FALSE ]
  /\ effectDeps = [ c \in Cells |-> None ]
  /\ renders = 0
  /\ renderedLayout = [ c \in Cells |-> None ]
  /\ published = [ c \in Cells |-> 0 ]
  /\ layoutChanges = [ c \in Cells |-> 0 ]
  /\ skipped = [ c \in Cells |-> 0 ]
  /\ lastRect = [ c \in Cells |-> None ]

(***************************************************************************)
(* Style objects: functions from property names to values, a value being a *)
(* string, a number or undefined.  An optional object is << >> where it is *)
(* undefined and << object >> where it is given.                           *)
(***************************************************************************)
Str(s) == [ tag |-> "string", n |-> 0, s |-> s ]
Num(n) == [ tag |-> "number", n |-> n, s |-> "" ]
Undefined == [ tag |-> "undefined", n |-> 0, s |-> "" ]

\* JavaScript truthiness of a value
Truthy(v) == v \notin { Undefined, Num(0), Str("") }

EmptyStyle == [ k \in {} |-> Undefined ]

\* object.key
Get(object, key) == IF key \in DOMAIN object THEN object[key] ELSE Undefined

\* { ...a, ...b }
Spread(a, b) ==
  [ k \in DOMAIN a \cup DOMAIN b |-> IF k \in DOMAIN b THEN b[k] ELSE a[k] ]

\* what ...(cond && object) spreads
When(cond, object) == IF cond THEN object ELSE EmptyStyle

\* what ...optional spreads
Given(optional) == IF optional = << >> THEN EmptyStyle ELSE optional[1]

BoardStyles ==
  { << >>,
    << EmptyStyle >>,
    << [ boxShadow |-> Str("0 2px 10px rgba(0,0,0,0.5)") ] >>,
    << [ borderRadius |-> Str("4px") ] >>,
    << [ borderRadius |-> Num(8),
         boxShadow |-> Str("0 2px 10px rgba(0,0,0,0.5)") ] >>,
    << [ borderRadius |-> Num(0) ] >>,
    << [ borderRadius |-> Str("") ] >> }
DarkSquareStyles ==
  { [ backgroundColor |-> Str("#B58863") ],
    [ backgroundColor |-> Str("#444444"), opacity |-> Num(1) ] }
LightSquareStyles ==
  { [ backgroundColor |-> Str("#F0D9B5") ],
    [ backgroundColor |-> Str("#EEEEEE"), opacity |-> Num(1) ] }
PremoveDarkSquareStyles ==
  { [ backgroundColor |-> Str("#A42323") ],
    [ boxShadow |-> Str("inset 0 0 1px 4px #A42323") ] }
PremoveLightSquareStyles ==
  { [ backgroundColor |-> Str("#BD2828") ],
    [ boxShadow |-> Str("inset 0 0 1px 4px #BD2828") ] }
DropSquareStyles ==
  { [ boxShadow |-> Str("inset 0 0 1px 6px rgba(255,255,255,0.75)") ],
    [ backgroundColor |-> Str("#FFFF00") ] }
SquareStyles ==
  { << >>,
    << [ backgroundColor |-> Str("#00FF00") ] >>,
    << [ width |-> Str("100%"), cursor |-> Str("pointer") ] >> }

Styles ==
  [ customBoardStyle : BoardStyles,
    customDarkSquareStyle : DarkSquareStyles,
    customLightSquareStyle : LightSquareStyles,
    customPremoveDarkSquareStyle : PremoveDarkSquareStyles,
    customPremoveLightSquareStyle : PremoveLightSquareStyles,
    customDropSquareStyle : DropSquareStyles,
    customSquareStyle : SquareStyles ]

DefaultStyles ==
  [ customBoardStyle |-> << EmptyStyle >>,
    customDarkSquareStyle |-> [ backgroundColor |-> Str("#B58863") ],
    customLightSquareStyle |-> [ backgroundColor |-> Str("#F0D9B5") ],
    customPremoveDarkSquareStyle |-> [ backgroundColor |-> Str("#A42323") ],
    customPremoveLightSquareStyle |-> [ backgroundColor |-> Str("#BD2828") ],
    customDropSquareStyle |->
      [ boxShadow |-> Str("inset 0 0 1px 6px rgba(255,255,255,0.75)") ],
    customSquareStyle |-> << >> ]

\* the cells and board styles whose composed styles are rendered
StyleCells == { "a1", "h8", "e4" }
ComposedBoardStyles == { << >>, << [ borderRadius |-> Str("4px") ] >> }

CellProps(S) ==
  [ square : S, squareColor : { "white", "black" },
    squareHasPremove : BOOLEAN, isOver : BOOLEAN ]

NotRendered ==
  [ done |-> FALSE, radius |-> EmptyStyle, style |-> EmptyStyle,
    inner |-> EmptyStyle ]

StyleStart ==
  /\ styles = DefaultStyles
  /\ cell = [ square |-> "a1", squareColor |-> "black",
              squareHasPremove |-> FALSE, isOver |-> FALSE ]
  /\ rendered = NotRendered

\* the board before any event: the context as configured, nothing mounted
Init == GestureStart /\ LayoutStart /\ GeometryStart /\ StyleStart

\* the same, with auto-promote off
InitDefault == Init /\ autoPromoteToQueen = FALSE

\* the board before any event, the cell's premove flag being set or not
InitClick ==
  /\ GestureStart
  /\ autoPromoteToQueen = FALSE
  /\ LayoutStart
  /\ GeometryStart
  /\ styles = DefaultStyles
  /\ cell \in { c \in CellProps({ CellOrder[1] }) :
                  c.squareColor = "black" /\ ~c.isOver }
  /\ rendered = NotRendered

\* a cell about to be rendered: any cell of the board under any layout and
\* board style, the other styles being the defaults
InitRadius ==
  /\ GestureStart
  /\ autoPromoteToQueen = FALSE
  /\ GeometryStart
  /\ boardWidth \in BoardWidths
  /\ boardOrientation \in BoardOrientation
  /\ styles \in { [ DefaultStyles EXCEPT !.customBoardStyle = b ] :
                     b \in BoardStyles }
  /\ cell \in { [ square |-> q, squareColor |-> "black",
                   squareHasPremove |-> FALSE, isOver |-> FALSE ] : q \in Sq }
  /\ rendered = NotRendered

\* a cell about to be rendered under any layout, props, drop state and
\* custom styles
InitStyle ==
  /\ GestureStart
  /\ autoPromoteToQueen = FALSE
  /\ GeometryStart
  /\ boardWidth \in BoardWidths
  /\ boardOrientation \in BoardOrientation
  /\ styles \in { t \in Styles : t.customBoardStyle \in ComposedBoardStyles }
  /\ cell \in CellProps(StyleCells)
  /\ rendered = NotRendered

(***************************************************************************)
(* DropTarget.                                                             *)
(***************************************************************************)
\* a variant that promotes to the white queen whatever the payload's colour
PromotedPieceWhite(piece) == "wQ"

\* item.piece[0] === "w" ? "wQ" : "bQ"
PromotedPiece(piece) == IF PieceChars[piece][1] = "w" THEN "wQ" ELSE "bQ"

\* a variant that omits the fourth argument
commitMoveNotAnimated(square, item) ==
  Call("handleSetPosition", item.square, square, item.piece, "undefined")

\* the move committed where no promotion is required
commitMove(square, item) ==
  Call("handleSetPosition", item.square, square, item.piece, "true")

\* the move committed where auto-promote is set
commitPromotion(square, item) ==
  Call("handleSetPosition", item.square, square, PromotedPiece(item.piece),
       "undefined")

\* a variant that commits the move as well as opening the promotion flow
openPromotionAndMove(square, item) ==
  << Call1("setPromoteFromSquare", item.square),
     Call1("setPromoteToSquare", square),
     Call("setShowPromoteDialog", None, None, None, "true"),
     commitMove(square, item) >>

\* the promotion flow opened where auto-promote is not set
openPromotion(square, item) ==
  << Call1("setPromoteFromSquare", item.square),
     Call1("setPromoteToSquare", square),
     Call("setShowPromoteDialog", None, None, None, "true") >>

\* handleDrop of the instance of cell square; promo is what onPromotionCheck
\* returns for (item.square, square, item.piece)
handleDrop(square, item, promo) ==
  /\ ev' = Event("drop", square, 0, "none", None, item, promo, None)
  /\ IF promo
       THEN IF autoPromoteToQueen
              THEN /\ out' = << Call("onPromotionCheck", item.square, square,
                                     item.piece, "undefined"),
                                commitPromotion(square, item) >>
                   /\ UNCHANGED << promoteFromSquare, promoteToSquare,
                                   showPromoteDialog >>
              ELSE /\ out' = << Call("onPromotionCheck", item.square, square,
                                     item.piece, "undefined") >>
                                \o openPromotion(square, item)
                   /\ promoteFromSquare' = item.square
                   /\ promoteToSquare' = square
                   /\ showPromoteDialog' = TRUE
       ELSE /\ out' = << Call("onPromotionCheck", item.square, square,
                              item.piece, "undefined"),
                         commitMove(square, item) >>
            /\ UNCHANGED << promoteFromSquare, promoteToSquare,
                            showPromoteDialog >>
  /\ UNCHANGED << autoPromoteToQueen, currentRightClickDown,
                  lastSquareDraggedOver, lastRightDown >>
  /\ UNCHANGED << geometryVars, styleVars >>

Drop == \E square \in Cells, item \in DragPayload, promo \in BOOLEAN :
          handleDrop(square, item, promo)

\* the drop of a dragged pawn
DropPawn == \E square \in Cells, promo \in BOOLEAN :
              \E item \in { i \in DragPayload : i.piece \in { "wP", "bP" } } :
                handleDrop(square, item, promo)

(***************************************************************************)
(* GestureRouter.                                                          *)
(***************************************************************************)
\* e.currentTarget.contains(e.relatedTarget): Node.contains holds of the node
\* itself and of its descendants
Contains(related) == related \in { "self", "descendant" }

\* what the context's currentRightClickDown is after onRightClickDown(square)
RightClickDownRecorded(square) == square

\* what the context's currentRightClickDown may be after onRightClickUp or
\* clearArrows: kept, or reset
RightClickDownAfterReset == { currentRightClickDown, None }

\* a variant that does not compare the hit with the record, and one that does
\* not test that there is a hit
touchTargetAlways(square, hit) == hit # None
touchTargetUnchecked(square, hit) == hit # lastSquareDraggedOver[square]

\* square && square !== lastSquareDraggedOver, square being the hit
touchTargetChanged(square, hit) ==
  hit # None /\ hit # lastSquareDraggedOver[square]

\* onTouchMove of the instance of cell square; hit is the data-square of the
\* first element under the touch point that carries one, or None.  The state
\* set by setLastSquareDraggedOver is the one the handler of the instance's
\* next event reads.
onTouchMove(square, hit) ==
  /\ ev' = Event("touchmove", square, 0, "none", hit, NoItem, FALSE, None)
  /\ IF touchTargetChanged(square, hit)
       THEN /\ lastSquareDraggedOver' =
                 [ lastSquareDraggedOver EXCEPT ![square] = hit ]
            /\ out' = << Call1("onDragOverSquare", hit) >>
       ELSE /\ UNCHANGED lastSquareDraggedOver
            /\ out' = << >>
  /\ UNCHANGED << autoPromoteToQueen, currentRightClickDown, promoteFromSquare,
                  promoteToSquare, showPromoteDialog, lastRightDown >>
  /\ UNCHANGED << geometryVars, styleVars >>

\* a variant that tests the secondary button's bit of e.buttons
extendsArrowAnyHeld(buttons) ==
  buttons \in { SecondaryButton, SecondaryButton + 1 }
    /\ currentRightClickDown # None

\* e.buttons === 2 && currentRightClickDown
extendsArrow(buttons) ==
  buttons = SecondaryButton /\ currentRightClickDown # None

onMouseOver(square, buttons, related) ==
  /\ ev' = Event("mouseover", square, buttons, related, None, NoItem, FALSE,
                 currentRightClickDown)
  /\ out' =
       ( IF extendsArrow(buttons)
           THEN << Call2("drawNewArrow", currentRightClickDown, square) >>
           ELSE << >> )
       \o
       ( IF related # "none" /\ Contains(related)
           THEN << >>
           ELSE << Call1("onMouseOverSquare", square) >> )
  /\ UNCHANGED << autoPromoteToQueen, currentRightClickDown, promoteFromSquare,
                  promoteToSquare, showPromoteDialog, lastSquareDraggedOver,
                  lastRightDown >>
  /\ UNCHANGED << geometryVars, styleVars >>

\* a variant without the guard
leftAlways(related) == TRUE

\* the guard of onMouseOut: the pointer left the cell's subtree
leftSquare(related) == ~(related # "none" /\ Contains(related))

onMouseOut(square, related) ==
  /\ ev' = Event("mouseout", square, 0, related, None, NoItem, FALSE, None)
  /\ out' = IF leftSquare(related)
              THEN << Call1("onMouseOutSquare", square) >>
              ELSE << >>
  /\ UNCHANGED << autoPromoteToQueen, currentRightClickDown, promoteFromSquare,
                  promoteToSquare, showPromoteDialog, lastSquareDraggedOver,
                  lastRightDown >>
  /\ UNCHANGED << geometryVars, styleVars >>

\* a variant that takes every button but the primary one for a right click
isRightClickNotPrimary(button) == button # 0

\* e.button === 2
isRightClick(button) == button = SecondaryButton

onMouseDown(square, button) ==
  /\ ev' = Event("mousedown", square, button, "none", None, NoItem, FALSE,
                 currentRightClickDown)
  /\ IF isRightClick(button)
       THEN /\ out' = << Call1("onRightClickDown", square) >>
            /\ currentRightClickDown' = RightClickDownRecorded(square)
            /\ lastRightDown' = square
       ELSE /\ out' = << >>
            /\ UNCHANGED << currentRightClickDown, lastRightDown >>
  /\ UNCHANGED << autoPromoteToQueen, promoteFromSquare, promoteToSquare,
                  showPromoteDialog, lastSquareDraggedOver >>
  /\ UNCHANGED << geometryVars, styleVars >>

\* a variant with the arguments exchanged
arrowEndReversed(square) ==
  Call2("onArrowDrawEnd", square, currentRightClickDown)

\* onArrowDrawEnd(currentRightClickDown, square)
arrowEnd(square) == Call2("onArrowDrawEnd", currentRightClickDown, square)

\* a variant that signals the right-click-up only after an arrow was ended
rightClickUpGuarded(square) ==
  IF currentRightClickDown # None
    THEN << arrowEnd(square), Call1("onRightClickUp", square) >>
    ELSE << >>

\* if (currentRightClickDown) onArrowDrawEnd(...); onRightClickUp(square)
rightClickUp(square) ==
  ( IF currentRightClickDown # None
      THEN << arrowEnd(square) >>
      ELSE << >> )
  \o << Call1("onRightClickUp", square) >>

onMouseUp(square, button) ==
  /\ ev' = Event("mouseup", square, button, "none", None, NoItem, FALSE,
                 currentRightClickDown)
  /\ IF button = SecondaryButton
       THEN /\ out' = rightClickUp(square)
            /\ currentRightClickDown' \in RightClickDownAfterReset
       ELSE /\ out' = << >>
            /\ UNCHANGED currentRightClickDown
  /\ UNCHANGED << autoPromoteToQueen, promoteFromSquare, promoteToSquare,
                  showPromoteDialog, lastSquareDraggedOver, lastRightDown >>
  /\ UNCHANGED << geometryVars, styleVars >>

\* a variant that is silent on a cell a touch-move has already reported
dragOverDeduplicated(square) ==
  IF \E c \in Cells : lastSquareDraggedOver[c] = square
    THEN << >>
    ELSE << Call1("onDragOverSquare", square) >>

\* a variant of the handler that records the cell entered as the touch target
onDragEnterRecording(square) ==
  /\ ev' = Event("dragenter", square, 0, "none", None, NoItem, FALSE, None)
  /\ out' = << Call1("onDragOverSquare", square) >>
  /\ lastSquareDraggedOver' = [ lastSquareDraggedOver EXCEPT ![square] = square ]
  /\ UNCHANGED << autoPromoteToQueen, currentRightClickDown, promoteFromSquare,
                  promoteToSquare, showPromoteDialog, lastRightDown >>
  /\ UNCHANGED << geometryVars, styleVars >>

\* onDragOverSquare(square)
dragOver(square) == << Call1("onDragOverSquare", square) >>

onDragEnter(square) ==
  /\ ev' = Event("dragenter", square, 0, "none", None, NoItem, FALSE, None)
  /\ out' = dragOver(square)
  /\ UNCHANGED << autoPromoteToQueen, currentRightClickDown, promoteFromSquare,
                  promoteToSquare, showPromoteDialog, lastSquareDraggedOver,
                  lastRightDown >>
  /\ UNCHANGED << geometryVars, styleVars >>

\* a variant that clears the arrows before it signals the click
clickCallsClearFirst(square) ==
  << Call("clearArrows", None, None, None, "undefined"),
     Call1("onSquareClick", square) >>

\* onSquareClick(square); clearArrows()
clickCalls(square) ==
  << Call1("onSquareClick", square),
     Call("clearArrows", None, None, None, "undefined") >>

onClick(square) ==
  /\ ev' = Event("click", square, 0, "none", None, NoItem, FALSE,
                 currentRightClickDown)
  /\ out' = clickCalls(square)
  /\ currentRightClickDown' \in RightClickDownAfterReset
  /\ UNCHANGED << autoPromoteToQueen, promoteFromSquare, promoteToSquare,
                  showPromoteDialog, lastSquareDraggedOver, lastRightDown >>
  /\ UNCHANGED << geometryVars, styleVars >>

\* e.preventDefault() only
onContextMenu(square) ==
  /\ ev' = Event("contextmenu", square, SecondaryButton, "none", None, NoItem,
                 FALSE, None)
  /\ out' = << >>
  /\ UNCHANGED << autoPromoteToQueen, currentRightClickDown, promoteFromSquare,
                  promoteToSquare, showPromoteDialog, lastSquareDraggedOver,
                  lastRightDown >>
  /\ UNCHANGED << geometryVars, styleVars >>

TouchMove == \E square \in Cells, hit \in Cells \cup { None } :
               onTouchMove(square, hit)
MouseOver == \E square \in Cells, buttons \in MouseButtons, related \in Related :
               onMouseOver(square, buttons, related)
MouseOut == \E square \in Cells, related \in Related : onMouseOut(square, related)
MouseDown == \E square \in Cells, button \in MouseButton :
               onMouseDown(square, button)
MouseUp == \E square \in Cells, button \in MouseButton : onMouseUp(square, button)
DragEnter == \E square \in Cells : onDragEnter(square)
Click == \E square \in Cells : onClick(square)
ContextMenu == \E square \in Cells : onContextMenu(square)

(***************************************************************************)
(* GeometryTracker.                                                        *)
(***************************************************************************)
\* a variant that leaves the orientation out
EffectDepsWidthOnly == << boardWidth >>

\* the dependency array of the geometry effect
EffectDeps == << boardWidth, boardOrientation >>

\* a variant that writes the rectangle under every key the map has, the
\* keys of the map being the cells that have published
publishGeometryEveryKey(square, refCurrent, rect) ==
  IF refCurrent
    THEN [ c \in Cells |->
             IF c = square \/ published[c] > 0 THEN rect ELSE squares[c] ]
    ELSE squares

\* the effect's body: squares after it ran in the instance of cell square,
\* refCurrent telling whether squareRef.current is set and rect being the
\* { x, y } of its getBoundingClientRect()
publishGeometry(square, refCurrent, rect) ==
  IF refCurrent
    THEN [ squares EXCEPT ![square] = rect ]
    ELSE squares

\* the histories of a render of cell square whose effect ran or not
Measured(square, ran, refCurrent, rect) ==
  /\ published' = [ published EXCEPT
                      ![square] = @ + IF ran /\ refCurrent THEN 1 ELSE 0 ]
  /\ skipped' = [ skipped EXCEPT
                    ![square] = @ + IF ran /\ ~refCurrent THEN 1 ELSE 0 ]
  /\ lastRect' = IF ran /\ refCurrent
                   THEN [ lastRect EXCEPT ![square] = rect ]
                   ELSE lastRect

\* the first render of the instance of cell square: effects run after mount
Mount(square, refCurrent, rect) ==
  /\ ~mounted[square]
  /\ renders < MaxRenders
  /\ renders' = renders + 1
  /\ mounted' = [ mounted EXCEPT ![square] = TRUE ]
  /\ effectDeps' = [ effectDeps EXCEPT ![square] = EffectDeps ]
  /\ renderedLayout' = [ renderedLayout EXCEPT
                           ![square] = << boardWidth, boardOrientation >> ]
  /\ squares' = publishGeometry(square, refCurrent, rect)
  /\ Measured(square, TRUE, refCurrent, rect)
  /\ UNCHANGED << boardWidth, boardOrientation, layoutChanges >>
  /\ UNCHANGED << gestureVars, styleVars >>

\* a later render of the instance of cell square, whatever caused it: the
\* effect runs when an entry of its dependency array differs from the one of
\* the previous render
Render(square, refCurrent, rect) ==
  /\ mounted[square]
  /\ renders < MaxRenders
  /\ renders' = renders + 1
  /\ effectDeps' = [ effectDeps EXCEPT ![square] = EffectDeps ]
  /\ renderedLayout' = [ renderedLayout EXCEPT
                           ![square] = << boardWidth, boardOrientation >> ]
  /\ layoutChanges' =
       [ layoutChanges EXCEPT
           ![square] = @ + IF renderedLayout[square]
                                # << boardWidth, boardOrientation >>
                             THEN 1 ELSE 0 ]
  /\ LET ran == effectDeps[square] # EffectDeps
     IN /\ squares' = IF ran
                        THEN publishGeometry(square, refCurrent, rect)
                        ELSE squares
        /\ Measured(square, ran, refCurrent, rect)
  /\ UNCHANGED << boardWidth, boardOrientation, mounted >>
  /\ UNCHANGED << gestureVars, styleVars >>

\* the board's width or orientation props change
SetLayout(width, orientation) ==
  /\ << width, orientation >> # << boardWidth, boardOrientation >>
  /\ boardWidth' = width
  /\ boardOrientation' = orientation
  /\ UNCHANGED << squares, mounted, effectDeps, renders, renderedLayout,
                  published, layoutChanges, skipped, lastRect >>
  /\ UNCHANGED << gestureVars, styleVars >>

\* a rectangle is measured only where squareRef.current is set
Measurable(refCurrent) == IF refCurrent THEN Coords ELSE { None }

MountCell == \E square \in Cells, refCurrent \in BOOLEAN :
               \E rect \in Measurable(refCurrent) :
                 Mount(square, refCurrent, rect)
RenderCell == \E square \in Cells, refCurrent \in BOOLEAN :
                \E rect \in Measurable(refCurrent) :
                  Render(square, refCurrent, rect)
LayoutChange == \E width \in BoardWidths, orientation \in BoardOrientation :
                  SetLayout(width, orientation)

(***************************************************************************)
(* StyleCompositor.                                                        *)
(***************************************************************************)
\* a variant with the rounded corner of a8 mirrored under the black orientation
borderRadiusMirrored(square, orientation, customBoardStyle) ==
  LET radius == Get(Given(customBoardStyle), "borderRadius")
  IN IF ~Truthy(radius) THEN EmptyStyle
     ELSE IF square = "a1"
       THEN IF orientation = "white"
              THEN [ borderBottomLeftRadius |-> radius ]
              ELSE [ borderTopRightRadius |-> radius ]
     ELSE IF square = "a8"
       THEN IF orientation = "white"
              THEN [ borderTopLeftRadius |-> radius ]
              ELSE [ borderBottomLeftRadius |-> radius ]
     ELSE IF square = "h1"
       THEN IF orientation = "white"
              THEN [ borderBottomRightRadius |-> radius ]
              ELSE [ borderTopLeftRadius |-> radius ]
     ELSE IF square = "h8"
       THEN IF orientation = "white"
              THEN [ borderTopRightRadius |-> radius ]
              ELSE [ borderBottomLeftRadius |-> radius ]
     ELSE EmptyStyle

\* a variant with the last corner's rounding given to every remaining cell
borderRadiusFallThrough(square, orientation, customBoardStyle) ==
  LET radius == Get(Given(customBoardStyle), "borderRadius")
  IN IF ~Truthy(radius) THEN EmptyStyle
     ELSE IF square = "a1"
       THEN IF orientation = "white"
              THEN [ borderBottomLeftRadius |-> radius ]
              ELSE [ borderTopRightRadius |-> radius ]
     ELSE IF square = "a8"
       THEN IF orientation = "white"
              THEN [ borderTopLeftRadius |-> radius ]
              ELSE [ borderBottomRightRadius |-> radius ]
     ELSE IF square = "h1"
       THEN IF orientation = "white"
              THEN [ borderBottomRightRadius |-> radius ]
              ELSE [ borderTopLeftRadius |-> radius ]
     ELSE IF orientation = "white"
            THEN [ borderTopRightRadius |-> radius ]
            ELSE [ borderBottomLeftRadius |-> radius ]

borderRadius(square, orientation, customBoardStyle) ==
  LET radius == Get(Given(customBoardStyle), "borderRadius")
  IN IF ~Truthy(radius) THEN EmptyStyle
     ELSE IF square = "a1"
       THEN IF orientation = "white"
              THEN [ borderBottomLeftRadius |-> radius ]
              ELSE [ borderTopRightRadius |-> radius ]
     ELSE IF square = "a8"
       THEN IF orientation = "white"
              THEN [ borderTopLeftRadius |-> radius ]
              ELSE [ borderBottomRightRadius |-> radius ]
     ELSE IF square = "h1"
       THEN IF orientation = "white"
              THEN [ borderBottomRightRadius |-> radius ]
              ELSE [ borderTopLeftRadius |-> radius ]
     ELSE IF square = "h8"
       THEN IF orientation = "white"
              THEN [ borderTopRightRadius |-> radius ]
              ELSE [ borderBottomLeftRadius |-> radius ]
     ELSE EmptyStyle

center == [ display |-> Str("flex"), justifyContent |-> Str("center") ]

size(width) == [ width |-> Num(width \div 8), height |-> Num(width \div 8) ]

\* a variant that spreads the drop-hover style before the premove style
defaultSquareStyleDropFirst ==
  Spread(
    Spread(
      Spread(
        borderRadius(cell.square, boardOrientation, styles.customBoardStyle),
        IF cell.squareColor = "black"
          THEN styles.customDarkSquareStyle
          ELSE styles.customLightSquareStyle),
      When(cell.isOver, styles.customDropSquareStyle)),
    When(cell.squareHasPremove,
         IF cell.squareColor = "black"
           THEN styles.customPremoveDarkSquareStyle
           ELSE styles.customPremoveLightSquareStyle))

\* the style of the cell's element
defaultSquareStyle ==
  Spread(
    Spread(
      Spread(
        borderRadius(cell.square, boardOrientation, styles.customBoardStyle),
        IF cell.squareColor = "black"
          THEN styles.customDarkSquareStyle
          ELSE styles.customLightSquareStyle),
      When(cell.squareHasPremove,
           IF cell.squareColor = "black"
             THEN styles.customPremoveDarkSquareStyle
             ELSE styles.customPremoveLightSquareStyle)),
    When(cell.isOver, styles.customDropSquareStyle))

\* a variant with the per-cell style applied whatever the premove flag
customSquareStyleUngated ==
  Spread(Spread(size(boardWidth), center), Given(styles.customSquareStyle))

\* a variant that spreads the per-cell style before the sizing and centering
customSquareStyleFirst ==
  Spread(
    When(~cell.squareHasPremove, Given(styles.customSquareStyle)),
    Spread(size(boardWidth), center))

\* the style of the CustomSquare element inside it
customSquareStyle ==
  Spread(
    Spread(size(boardWidth), center),
    When(~cell.squareHasPremove, Given(styles.customSquareStyle)))

\* one render of the cell
renderSquare ==
  /\ ~rendered.done
  /\ rendered' =
       [ done |-> TRUE,
         radius |-> borderRadius(cell.square, boardOrientation,
                                 styles.customBoardStyle),
         style |-> defaultSquareStyle,
         inner |-> customSquareStyle ]
  /\ UNCHANGED << styles, cell >>
  /\ UNCHANGED << gestureVars, geometryVars >>

\* the gesture handlers of the cells
Next ==
  \/ TouchMove
  \/ MouseOver
  \/ MouseOut
  \/ MouseDown
  \/ MouseUp
  \/ DragEnter
  \/ Click
  \/ ContextMenu

Spec == InitDefault /\ [][Next]_vars

\* the drop targets of the cells
NextClick ==
  \/ MouseDown
  \/ MouseUp
  \/ Click

\* the mouse buttons pressed, released and clicked on the cells, with and
\* without a premove flagged on the first of them
SpecClick == InitClick /\ [][NextClick]_vars

NextTouch ==
  \/ TouchMove
  \/ DropPawn
  \/ Click
  \/ MouseUp
  \/ DragEnter

\* touch-moves among the drops, clicks, mouse-ups and drag-enters of the cells
SpecTouch == InitDefault /\ [][NextTouch]_vars

NextDrop == Drop

SpecDrop == Init /\ [][NextDrop]_vars

\* the renders of the cells
NextGeometry ==
  \/ MountCell
  \/ RenderCell
  \/ LayoutChange

SpecGeometry == InitDefault /\ [][NextGeometry]_vars

\* the styles of a rendered cell
NextStyle == renderSquare

SpecRadius == InitRadius /\ [][NextStyle]_vars

SpecStyle == InitStyle /\ [][NextStyle]_vars
(***************************************************************************)
(* Properties.                                                             *)
(***************************************************************************)
\* the calls of fn among the calls of the event handled last
Calls(fn) == SelectSeq(out, LAMBDA c : c.fn = fn)

WhitePieces == { "wP", "wB", "wN", "wR", "wQ", "wK" }

DialogCalls ==
  Calls("setPromoteFromSquare") \o Calls("setPromoteToSquare")
    \o Calls("setShowPromoteDialog")

\* C1: a drop for which the promotion check returned true, with auto-promote
\* off, leaves promote-from = the payload's origin cell, promote-to = the
\* cell dropped on and the dialog shown, and commits no move; with
\* auto-promote on it commits exactly one move from the origin cell to the
\* cell dropped on, of the white queen for a white payload piece and of the
\* black queen otherwise, and neither calls a dialog setter nor opens the
\* dialog.
C1_DropWithPromotion ==
  (ev.type = "drop" /\ ev.promo) =>
    IF autoPromoteToQueen
      THEN /\ Len(Calls("handleSetPosition")) = 1
           /\ Calls("handleSetPosition")[1].a = ev.item.square
           /\ Calls("handleSetPosition")[1].b = ev.cell
           /\ Calls("handleSetPosition")[1].piece =
                IF ev.item.piece \in WhitePieces THEN "wQ" ELSE "bQ"
           /\ DialogCalls = << >>
           /\ ~showPromoteDialog
           /\ promoteFromSquare = None
           /\ promoteToSquare = None
      ELSE /\ promoteFromSquare = ev.item.square
           /\ promoteToSquare = ev.cell
           /\ showPromoteDialog
           /\ Calls("handleSetPosition") = << >>

C1_Witness ==
  /\ ev.type = "drop"
  /\ ev.promo
  /\ autoPromoteToQueen
  /\ ev.item.piece = "bP"
  /\ ev.item.square # ev.cell
  /\ Len(Calls("handleSetPosition")) = 1
  /\ Calls("handleSetPosition")[1].piece = "bQ"

\* C2: a drop for which the promotion check returned false commits exactly
\* one move (origin cell, cell dropped on, payload piece) with the flag
\* true, calls no dialog setter and leaves promote-from, promote-to and the
\* dialog's visibility as they were.
C2_DropWithoutPromotion ==
  [][ (ev'.type = "drop" /\ ~ev'.promo) =>
        /\ Calls("handleSetPosition")' =
             << Call("handleSetPosition", ev'.item.square, ev'.cell,
                     ev'.item.piece, "true") >>
        /\ DialogCalls' = << >>
        /\ UNCHANGED << promoteFromSquare, promoteToSquare,
                        showPromoteDialog >> ]_vars

C2_Witness ==
  /\ ev.type = "drop"
  /\ ~ev.promo
  /\ showPromoteDialog
  /\ promoteFromSquare # ev.item.square
  /\ Len(Calls("handleSetPosition")) = 1

\* C3: a touch-move of a cell instance whose hit-test resolves to a cell
\* signals one drag-over for that cell if it differs from the instance's
\* last recorded touch target and nothing otherwise, and the record is then
\* the resolved cell; so of two successive touch-moves of an instance that
\* resolve to the same cell the second signals nothing and the two signal
\* at most one drag-over, exactly one when the first changed the record.
C3_TouchMoveDeduplicated ==
  [][ (ev'.type = "touchmove" /\ ev'.hit # None) =>
        /\ ev'.hit # lastSquareDraggedOver[ev'.cell] =>
             out' = << Call1("onDragOverSquare", ev'.hit) >>
        /\ ev'.hit = lastSquareDraggedOver[ev'.cell] => out' = << >>
        /\ lastSquareDraggedOver'[ev'.cell] = ev'.hit
        /\ \A c \in Cells \ { ev'.cell } :
             lastSquareDraggedOver'[c] = lastSquareDraggedOver[c]
        /\ (ev.type = "touchmove" /\ ev.cell = ev'.cell /\ ev.hit = ev'.hit) =>
             /\ out' = << >>
             /\ out \in { << >>, << Call1("onDragOverSquare", ev'.hit) >> } ]_vars

C3_Witness ==
  /\ ev.type = "touchmove"
  /\ ev.hit # None
  /\ ev.hit # ev.cell
  /\ lastSquareDraggedOver[ev.cell] = ev.hit
  /\ out = << >>

\* C4: a secondary-button mouse-down on cell A records A as the
\* right-click-down origin, and a secondary-button mouse-up on cell B that
\* reads the origin of the latest secondary-button mouse-down, A, signals
\* exactly one arrow-finalize, with the arguments (A, B).
C4_ArrowFinalize ==
  [][ /\ (ev'.type = "mousedown" /\ ev'.button = SecondaryButton) =>
           /\ lastRightDown' = ev'.cell
           /\ currentRightClickDown' = ev'.cell
      /\ ( /\ ev'.type = "mouseup"
           /\ ev'.button = SecondaryButton
           /\ lastRightDown # None
           /\ currentRightClickDown = lastRightDown ) =>
           Calls("onArrowDrawEnd")' =
             << Call2("onArrowDrawEnd", lastRightDown, ev'.cell) >> ]_vars

C4_Witness ==
  /\ ev.type = "mouseup"
  /\ ev.button = SecondaryButton
  /\ lastRightDown # None
  /\ ev.origin = lastRightDown
  /\ ev.cell # lastRightDown
  /\ Len(Calls("onArrowDrawEnd")) = 1

\* the premove style of the colour of the cell rendered
PremoveLayer ==
  IF cell.squareColor = "black"
    THEN styles.customPremoveDarkSquareStyle
    ELSE styles.customPremoveLightSquareStyle

\* C5, as stated: whenever the premove flag is true, the style rendered for
\* the cell is the premove style of the cell's colour, whatever the custom
\* per-cell style, base colour style, drop-hover flag and style and corner
\* radius are.
C5_PremoveStyleAlone ==
  (rendered.done /\ cell.squareHasPremove) => rendered.style = PremoveLayer

\* C5, amended: whenever the premove flag is true, no key of the custom
\* per-cell style is applied (the inner element's style is the sizing and
\* centering alone), and the cell's style has the premove style's value on
\* every key the premove style defines, except the keys the drop-hover style
\* defines while a drag hovers the cell, which have the drop-hover style's.
C5_PremoveWins ==
  (rendered.done /\ cell.squareHasPremove) =>
    /\ rendered.inner =
         [ width |-> Num(boardWidth \div 8), height |-> Num(boardWidth \div 8),
           display |-> Str("flex"), justifyContent |-> Str("center") ]
    /\ \A k \in DOMAIN PremoveLayer :
         /\ k \in DOMAIN rendered.style
         /\ rendered.style[k] =
              IF cell.isOver /\ k \in DOMAIN styles.customDropSquareStyle
                THEN styles.customDropSquareStyle[k]
                ELSE PremoveLayer[k]

C5_Witness ==
  /\ rendered.done
  /\ cell.squareHasPremove
  /\ cell.isOver
  /\ styles.customSquareStyle # << >>
  /\ \E k \in DOMAIN PremoveLayer :
       /\ k \in DOMAIN styles.customDropSquareStyle
       /\ rendered.style[k] # PremoveLayer[k]
  /\ DOMAIN rendered.style # DOMAIN PremoveLayer

\* C6: a mounted cell whose DOM node was there at every run of the geometry
\* effect has published 1 + (its re-renders with a changed board width or
\* orientation) times, under its own identity, and the squares map holds the
\* rectangle it measured last; a cell not mounted has published nothing.
C6_GeometryPublications ==
  \A c \in Cells :
    /\ (mounted[c] /\ skipped[c] = 0) =>
         /\ published[c] = 1 + layoutChanges[c]
         /\ squares[c] \in Coords
         /\ squares[c] = lastRect[c]
    /\ mounted[c] => published[c] + skipped[c] = 1 + layoutChanges[c]
    /\ ~mounted[c] => (published[c] = 0 /\ squares[c] = None)

C6_Witness ==
  \E c \in Cells :
    /\ mounted[c]
    /\ skipped[c] = 0
    /\ renders = MaxRenders
    /\ layoutChanges[c] = 1
    /\ published[c] = 2
    /\ renderedLayout[c] = << boardWidth, boardOrientation >>
    /\ boardOrientation = "black"
    /\ boardWidth = 560

\* C7: a mouse-out whose related target is a descendant of the cell signals
\* nothing; a mouse-out whose related target is outside the cell's subtree,
\* or absent, signals exactly one hover-leave, for this cell.
C7_HoverLeaveGuard ==
  ev.type = "mouseout" =>
    /\ ev.related = "descendant" => out = << >>
    /\ ev.related \in { "outside", "none" } =>
         out = << Call1("onMouseOutSquare", ev.cell) >>

C7_Witness ==
  /\ ev.type = "mouseout"
  /\ ev.related = "descendant"
  /\ out = << >>

Corners == { "a1", "a8", "h1", "h8" }

\* the rounded-corner property of the corner a cell lies in on the screen:
\* file a is on the left and rank 1 at the bottom from the white side, and
\* the board is turned by half a turn from the black side
ScreenCorner(square, orientation) ==
  LET left == (square \in { "a1", "a8" }) = (orientation = "white")
      bottom == (square \in { "a1", "h1" }) = (orientation = "white")
  IN IF bottom
       THEN IF left THEN "borderBottomLeftRadius" ELSE "borderBottomRightRadius"
       ELSE IF left THEN "borderTopLeftRadius" ELSE "borderTopRightRadius"

OtherOrientation == IF boardOrientation = "white" THEN "black" ELSE "white"

BoardRadius == Get(Given(styles.customBoardStyle), "borderRadius")

\* C8, as stated: for a corner cell, under either orientation and any board
\* style, the lookup returns exactly one rounded-corner entry, and not the
\* one it returns under the other orientation.
C8_CornerAlwaysRounded ==
  (rendered.done /\ cell.square \in Corners) =>
    /\ Cardinality(DOMAIN rendered.radius) = 1
    /\ rendered.radius #
         borderRadius(cell.square, OtherOrientation, styles.customBoardStyle)

\* C8, amended: for a corner cell, under either orientation and any board
\* style that gives a truthy borderRadius, the lookup returns exactly one
\* entry, that radius under the property of the corner the cell lies in on
\* the screen, and not the entry it returns under the other orientation;
\* under a board style with no or a falsy borderRadius it returns the empty
\* style.
C8_CornerRounding ==
  (rendered.done /\ cell.square \in Corners) =>
    IF Truthy(BoardRadius)
      THEN /\ DOMAIN rendered.radius =
                { ScreenCorner(cell.square, boardOrientation) }
           /\ \A k \in DOMAIN rendered.radius : rendered.radius[k] = BoardRadius
           /\ rendered.radius #
                borderRadius(cell.square, OtherOrientation,
                             styles.customBoardStyle)
      ELSE rendered.radius = EmptyStyle

C8_Witness ==
  /\ rendered.done
  /\ cell.square = "a8"
  /\ boardOrientation = "black"
  /\ rendered.radius = [ borderBottomRightRadius |-> Num(8) ]

\* C9: for a cell other than a1, a8, h1 and h8, under either orientation and
\* any board style, the lookup returns the empty style.
C9_NoRoundingOffCorners ==
  (rendered.done /\ cell.square \notin Corners) =>
    /\ rendered.radius = EmptyStyle
    /\ borderRadius(cell.square, OtherOrientation, styles.customBoardStyle)
         = EmptyStyle

C9_Witness ==
  /\ rendered.done
  /\ cell.square = "b1"
  /\ Truthy(BoardRadius)
  /\ rendered.radius = EmptyStyle

\* C10: a touch-move whose hit-test finds no element tagged with a cell
\* signals nothing and leaves the last recorded touch target of every cell
\* instance as it was.
C10_TouchMoveNoHit ==
  [][ (ev'.type = "touchmove" /\ ev'.hit = None) =>
        /\ out' = << >>
        /\ UNCHANGED lastSquareDraggedOver ]_vars

C10_Witness ==
  /\ ev.type = "touchmove"
  /\ ev.hit = None
  /\ lastSquareDraggedOver[ev.cell] # None
  /\ out = << >>

C12_MouseUpRouting ==
  ev.type = "mouseup" =>
    IF ev.button = SecondaryButton
      THEN /\ Calls("onRightClickUp") = << Call1("onRightClickUp", ev.cell) >>
           /\ Calls("onArrowDrawEnd") # << >> => ev.origin # None
           /\ out = Calls("onArrowDrawEnd") \o Calls("onRightClickUp")
           /\ Len(Calls("onArrowDrawEnd")) <= 1
      ELSE out = << >>

C12_Witness ==
  /\ ev.type = "mouseup"
  /\ ev.button = SecondaryButton
  /\ ev.origin = None
  /\ out = << Call1("onRightClickUp", ev.cell) >>

\* C13: every click on a cell signals the cell-click for that cell and then
\* clears the arrows, in that order and nothing else, also when a
\* right-click-down origin is recorded or the cell has a premove flagged.
C13_ClickRouting ==
  ev.type = "click" =>
    /\ Len(out) = 2
    /\ out[1] = Call1("onSquareClick", ev.cell)
    /\ out[2].fn = "clearArrows"

C13_Witness ==
  /\ ev.type = "click"
  /\ ev.origin # None
  /\ ev.cell = cell.square
  /\ cell.squareHasPremove
  /\ Len(out) = 2

\* C17: a mouse-down on a cell signals right-click-down for that cell, which
\* records the cell as the origin, exactly when the pressed button is the
\* secondary one; with any other button it signals nothing and leaves the
\* origin as it was; the context-menu event signals nothing.
C17_MouseDownRouting ==
  /\ ev.type = "mousedown" =>
       IF ev.button = SecondaryButton
         THEN /\ out = << Call1("onRightClickDown", ev.cell) >>
              /\ currentRightClickDown = ev.cell
         ELSE /\ out = << >>
              /\ currentRightClickDown = ev.origin
  /\ ev.type = "contextmenu" => out = << >>

C17_Witness ==
  /\ ev.type = "mousedown"
  /\ ev.button = SecondaryButton
  /\ ev.origin # None
  /\ ev.origin # ev.cell
  /\ currentRightClickDown = ev.cell
  /\ out = << Call1("onRightClickDown", ev.cell) >>

\* C19: every drag-enter on a cell signals one drag-over for that cell,
\* whatever the touch records hold, and leaves the records as they were; a
\* touch-move that reported cell C followed by a drag-enter on C therefore
\* signals the drag-over of C twice.
C19_DragEnterNotDeduplicated ==
  [][ ev'.type = "dragenter" =>
        /\ out' = << Call1("onDragOverSquare", ev'.cell) >>
        /\ lastSquareDraggedOver' = lastSquareDraggedOver
        /\ ( /\ ev.type = "touchmove"
             /\ ev.hit = ev'.cell
             /\ out = << Call1("onDragOverSquare", ev.hit) >> )
             => out' = out ]_vars

C19_Witness ==
  /\ ev.type = "dragenter"
  /\ \E c \in Cells : lastSquareDraggedOver[c] = ev.cell
  /\ out = << Call1("onDragOverSquare", ev.cell) >>

\* C18: every drop consults the promotion check exactly once, first, with
\* (the payload's origin cell, this cell, the payload's piece), and then does
\* exactly one of two things: it commits exactly one move, from the payload's
\* origin cell to the cell dropped on, and calls no dialog setter; or it
\* commits no move and sets promote-from, then promote-to, then shows the
\* dialog, each once.
C18_DropOutcomeExclusive ==
  ev.type = "drop" =>
    LET moves == Calls("handleSetPosition")
        opening == << Call1("setPromoteFromSquare", ev.item.square),
                      Call1("setPromoteToSquare", ev.cell),
                      Call("setShowPromoteDialog", None, None, None, "true") >>
    IN /\ Calls("onPromotionCheck") =
            << Call("onPromotionCheck", ev.item.square, ev.cell,
                    ev.item.piece, "undefined") >>
       /\ out[1].fn = "onPromotionCheck"
       /\ \/ /\ Len(moves) = 1
             /\ moves[1].a = ev.item.square
             /\ moves[1].b = ev.cell
             /\ out = Calls("onPromotionCheck") \o moves
          \/ /\ moves = << >>
             /\ out = Calls("onPromotionCheck") \o opening
             /\ promoteFromSquare = ev.item.square
             /\ promoteToSquare = ev.cell
             /\ showPromoteDialog

C18_Witness ==
  /\ ev.type = "drop"
  /\ ev.promo
  /\ ~autoPromoteToQueen
  /\ ev.item.square # ev.cell
  /\ Len(out) = 4
  /\ Calls("handleSetPosition") = << >>
  /\ showPromoteDialog

BaseLayer ==
  IF cell.squareColor = "black"
    THEN styles.customDarkSquareStyle
    ELSE styles.customLightSquareStyle

\* the layers of the cell's style that apply, earliest first
AppliedLayers ==
  << rendered.radius, BaseLayer >>
    \o ( IF cell.squareHasPremove THEN << PremoveLayer >> ELSE << >> )
    \o ( IF cell.isOver THEN << styles.customDropSquareStyle >> ELSE << >> )

\* the last of the applied layers that defines key k
LatestLayer(k) ==
  LET defining == { i \in DOMAIN AppliedLayers : k \in DOMAIN AppliedLayers[i] }
  IN AppliedLayers[CHOOSE i \in defining : \A j \in defining : j <= i]

\* C14: the style rendered for the cell has exactly the keys of the layers
\* that apply - corner rounding, base style of the cell's colour, premove
\* style of that colour if the premove flag is set, drop-hover style if a
\* drag hovers the cell - and on each key the value of the latest of these
\* layers that defines it: the drop-hover style's over the premove style's on
\* a key of both, and an earlier layer's on a key no later layer defines.
C14_StyleLayering ==
  rendered.done =>
    /\ DOMAIN rendered.style =
         UNION { DOMAIN AppliedLayers[i] : i \in DOMAIN AppliedLayers }
    /\ \A k \in DOMAIN rendered.style : rendered.style[k] = LatestLayer(k)[k]

C14_Witness ==
  /\ rendered.done
  /\ cell.squareHasPremove
  /\ cell.isOver
  /\ rendered.radius # EmptyStyle
  /\ \E k \in DOMAIN PremoveLayer \cap DOMAIN styles.customDropSquareStyle :
       /\ PremoveLayer[k] # styles.customDropSquareStyle[k]
       /\ rendered.style[k] = styles.customDropSquareStyle[k]
  /\ \E k \in DOMAIN BaseLayer :
       /\ k \notin DOMAIN PremoveLayer \cup DOMAIN styles.customDropSquareStyle
       /\ rendered.style[k] = BaseLayer[k]
\* the sizing and centering of the inner element: boardWidth / 8 per side

InnerFrame ==
  [ width |-> Num(boardWidth \div 8), height |-> Num(boardWidth \div 8),
    display |-> Str("flex"), justifyContent |-> Str("center") ]

\* the per-cell custom style supplied for the cell, empty if there is none
PerCellStyle ==
  IF styles.customSquareStyle = << >>
    THEN EmptyStyle
    ELSE styles.customSquareStyle[1]

\* C15: when the premove flag is false the inner element's style is the
\* sizing (board width / 8 per side) and centering with the per-cell custom
\* style laid over them last: every key of the custom style has the custom
\* style's value, also one the sizing or centering defines, and the other
\* keys keep the sizing's and centering's; when the premove flag is true the
\* custom style contributes no key: the inner element's style is the sizing
\* and centering alone, and the cell's style has none of its keys unless
\* another layer defines it.
C15_CustomStyleGating ==
  rendered.done =>
    IF cell.squareHasPremove
      THEN /\ rendered.inner = InnerFrame
           /\ \A k \in DOMAIN PerCellStyle \cap DOMAIN rendered.style :
                \E i \in DOMAIN AppliedLayers : k \in DOMAIN AppliedLayers[i]
      ELSE /\ DOMAIN rendered.inner = DOMAIN InnerFrame \cup DOMAIN PerCellStyle
           /\ \A k \in DOMAIN rendered.inner :
                rendered.inner[k] =
                  IF k \in DOMAIN PerCellStyle
                    THEN PerCellStyle[k]
                    ELSE InnerFrame[k]

C15_Witness ==
  /\ rendered.done
  /\ ~cell.squareHasPremove
  /\ \E k \in DOMAIN PerCellStyle \cap DOMAIN InnerFrame :
       /\ PerCellStyle[k] # InnerFrame[k]
       /\ rendered.inner[k] = PerCellStyle[k]
  /\ \E k \in DOMAIN PerCellStyle : k \notin DOMAIN InnerFrame
  /\ rendered.inner.height = InnerFrame.height

\* C16: a publication by a cell writes the entry of that cell alone, every
\* other cell's entry being left as it was, so that after any interleaving
\* the map holds for each cell that has published the rectangle of its
\* latest publication; a run of the effect in a cell whose DOM node is not
\* there leaves the whole map as it was.
C16_GeometryMapFrame ==
  /\ [](\A c \in Cells : published[c] > 0 => squares[c] = lastRect[c])
  /\ [][ /\ \A c \in Cells :
              IF published'[c] = published[c]
                THEN squares'[c] = squares[c]
                ELSE squares'[c] = lastRect'[c]
         /\ skipped' # skipped => squares' = squares ]_vars

C16_Witness ==
  \E c, d \in Cells :
    /\ c # d
    /\ published[c] = 2
    /\ published[d] = 1
    /\ squares[c] = lastRect[c]
    /\ squares[d] = lastRect[d]
    /\ squares[c] # squares[d]

\* C20: the touch record of each cell instance is empty at first and changes
\* only by a touch-move of that instance whose hit-test resolves to a cell,
\* which it then holds; no drop, click, mouse-up or drag-enter, and no
\* touch-move of another instance or without a hit, changes it.  So it is the
\* cell of the instance's latest successful hit-test, and a later touch-move
\* of the instance that resolves to that cell signals nothing.
C20_TouchRecordPersists ==
  /\ \A c \in Cells : lastSquareDraggedOver[c] = None
  /\ [][ \A c \in Cells :
           /\ lastSquareDraggedOver'[c] # lastSquareDraggedOver[c] =>
                /\ ev'.type = "touchmove"
                /\ ev'.cell = c
                /\ ev'.hit # None
           /\ (ev'.type = "touchmove" /\ ev'.cell = c /\ ev'.hit # None) =>
                /\ lastSquareDraggedOver'[c] = ev'.hit
                /\ ev'.hit = lastSquareDraggedOver[c] => out' = << >> ]_vars

C20_Witness ==
  /\ ev.type = "drop"
  /\ lastSquareDraggedOver[ev.cell] # None
  /\ \E d \in Cells : lastSquareDraggedOver[d] = None
====
